---- MODULE Spec2Model ----
(***************************************************************************)
(* The recommendation engine of plottwist-backend                          *)
(* (app/services/recommendation_service.py and its router), over the       *)
(* favorites and reviews tables it reads.                                  *)
(*                                                                         *)
(* Ratings are in hundredths of a star (490 = 4.9), scores in thousandths  *)
(* (503 = 0.503), so that the arithmetic of the scorers is exact.          *)
(***************************************************************************)
EXTENDS Integers, Sequences, FiniteSets

\* ---------------------------------------------------------------- bounds
NumUsers == 3
NumBooks == 2
MaxLimit == 2
MaxReviews == 3
MaxFavorites == 1

Users == 1..NumUsers
Books == 1..NumBooks
Genres == {1, 2, 3, 4, 5, 6}

\* The genre tags of the catalog (book_genres): book 1 carries every genre
\* (one more than the affinity query keeps), book 2 the first one; every
\* further book carries no genre.
BookGenres(b) == IF b = 1 THEN Genres ELSE IF b = 2 THEN {1} ELSE {}

\* Ratings a review may carry (Float, 1.0 <= rating <= 5.0), in hundredths.
RatingValues == {490, 500}

\* ------------------------------------------------------ program constants
TopGenres == 5
ContentMinReviews == 3
PopularityMinReviews == 1
FallbackMinReviews == 1
ReviewNorm == 100
FavoriteNorm == 50

CONTENT_BASED == "content_based"
POPULARITY_BASED == "popularity_based"

VARIABLES
    favorites,   \* the favorites table: set of <<user_id, book_id>>
    reviews,     \* the reviews table: reviews[u][b] = rating, 0 when no row
    resp,        \* the response on its way to the caller: <<>> or <<r>>
    feedback,    \* the recommendation_feedback table: its rows, oldest first
    id_seq,      \* the last value of the sequence behind recommendation_feedback.id
    calls,       \* calls[h]: where request handler h is in POST /feedback/
    stats,       \* the response of GET /stats/ on its way: <<>> or <<r>>
    cache_keys,  \* the calls of _generate_cache_key made so far, with their keys
    invalidated, \* the response of POST /invalidate-cache/ on its way: <<>> or <<r>>
    txn          \* the request served query by query: <<>> or <<its progress>>

\* The variables the recommendation requests never touch.
others == <<feedback, id_seq, calls, stats, cache_keys, invalidated, txn>>

\* The tables and the response of the recommendation requests.
engine == <<favorites, reviews, resp>>

vars == <<favorites, reviews, resp, feedback, id_seq, calls, stats, cache_keys,
          invalidated, txn>>

\* ------------------------------------------------------------- arithmetic
Min(a, b) == IF a <= b THEN a ELSE b

\* num/den (den > 0, num >= 0) rounded to the nearest integer, halves to even:
\* Python's round(x, 3) on a score held in thousandths.
RoundHalfEven(num, den) ==
    LET q == num \div den
        r == num % den
    IN  IF 2 * r < den THEN q
        ELSE IF 2 * r > den THEN q + 1
        ELSE IF q % 2 = 0 THEN q ELSE q + 1

RECURSIVE SumOver(_, _)
\* the sum of f[x] over the finite set S
SumOver(f, S) ==
    IF S = {} THEN 0
    ELSE LET x == CHOOSE y \in S : TRUE IN f[x] + SumOver(f, S \ {x})

\* --------------------------------------------------- aggregates of a book
Reviewers(b) == {u \in Users : reviews[u][b] # 0}
NumReviews(b) == Cardinality(Reviewers(b))
RatingSum(b) == SumOver([u \in Users |-> reviews[u][b]], Reviewers(b))
NumFavorites(b) == Cardinality({u \in Users : <<u, b>> \in favorites})
TotalReviews == SumOver([b \in Books |-> NumReviews(b)], Books)

\* ------------------------------------------ the queries of the engine
\* A row of a candidate query: the book and the aggregates the query
\* selects. avg_rating is rating_sum / rating_n; favorite_count is 0 in the
\* queries that do not select it.
Row(b, review_count, favorite_count) ==
    [book |-> b, rating_sum |-> RatingSum(b), rating_n |-> NumReviews(b),
     review_count |-> review_count, favorite_count |-> favorite_count]

AvgGreater(a, b) == a.rating_sum * b.rating_n > b.rating_sum * a.rating_n
AvgEqual(a, b) == a.rating_sum * b.rating_n = b.rating_sum * a.rating_n

\* HAVING avg(Review.rating) >= params.min_rating, applied `if params.min_rating`
\* (0 stands for None and for 0.0, both falsy).
MinRatingOk(b, params) ==
    params.min_rating = 0 \/ RatingSum(b) >= params.min_rating * NumReviews(b)

\* order_by(desc('avg_rating'), desc('review_count'), desc('favorite_count')):
\* a must come before b.
OrderBefore(a, b) ==
    \/ AvgGreater(a, b)
    \/ AvgEqual(a, b) /\ a.review_count > b.review_count
    \/ AvgEqual(a, b) /\ a.review_count = b.review_count
                      /\ a.favorite_count > b.favorite_count

\* The row orders the database may return for ORDER BY: rows equal on every
\* sort key come in any order.
Ordered(rows) ==
    {p \in [1..Cardinality(rows) -> rows] :
        /\ \A i, j \in DOMAIN p : i # j => p[i] # p[j]
        /\ \A i, j \in DOMAIN p : i < j => ~OrderBefore(p[j], p[i])}

\* A query that forgets its .limit(n).
Limit_dropped(p, n) == p

\* .limit(n)
Limit(p, n) == SubSeq(p, 1, Min(n, Len(p)))

\* query.order_by(...).limit(params.limit).all()
QueryAll(rows, params) == {Limit(p, params.limit) : p \in Ordered(rows)}

\* Favorite.book_id of the user UNION Review.book_id of the user, run only
\* when params.exclude_user_books.
\* An exclusion query without its first arm: the reviewed books alone.
ExclusionQuery_reviews_only(user_id) ==
    {b \in Books : reviews[user_id][b] # 0}

ExclusionQuery(user_id) ==
    {b \in Books : <<user_id, b>> \in favorites \/ reviews[user_id][b] # 0}

\* An exclusion set built from the favorites alone, without the UNION of the
\* reviewed books.
user_books_favorites_only(user_id, params) ==
    IF params.exclude_user_books
    THEN {b \in Books : <<user_id, b>> \in favorites}
    ELSE {}

user_books(user_id, params) ==
    IF params.exclude_user_books THEN ExclusionQuery(user_id) ELSE {}

\* genre_count of the affinity query: favorited books of the user per genre.
GenreCount(user_id, g) ==
    Cardinality({b \in Books : <<user_id, b>> \in favorites /\ g \in BookGenres(b)})

\* An affinity result that is not read from the favorites of the request's
\* time: the rows of a user who had no favorite yet.
user_favorite_genres_stale(user_id) == {}

user_favorite_genres(user_id) == {g \in Genres : GenreCount(user_id, g) > 0}

\* The first 5 rows of an affinity query ordered by ascending genre_count.
top_genre_ids_least_frequent(user_id) ==
    LET rows == {g \in Genres : GenreCount(user_id, g) > 0}
    IN  {S \in SUBSET rows :
            /\ Cardinality(S) = Min(TopGenres, Cardinality(rows))
            /\ \A g \in S, h \in rows \ S :
                   GenreCount(user_id, g) <= GenreCount(user_id, h)}

\* user_favorite_genres[:5] as a set: the first 5 rows of ORDER BY genre_count
\* DESC, genres of equal count in any order.
top_genre_ids(user_id) ==
    LET rows == user_favorite_genres(user_id)
    IN  {S \in SUBSET rows :
            /\ Cardinality(S) = Min(TopGenres, Cardinality(rows))
            /\ \A g \in S, h \in rows \ S :
                   GenreCount(user_id, g) >= GenreCount(user_id, h)}

\* The candidate query of the content-based scorer. Joining book_genres
\* filtered to the top genres yields one row per matching genre and review,
\* so count(Review.id) is (matching genres) * (reviews).
ContentMatches(b, top) == Cardinality(BookGenres(b) \cap top)

ContentReviewCount(b, top) == ContentMatches(b, top) * NumReviews(b)

ContentCandidates(top, excluded, params) ==
    {Row(b, ContentReviewCount(b, top), 0) : b \in
        {c \in Books :
            /\ ContentMatches(c, top) >= 1
            /\ ContentReviewCount(c, top) >= ContentMinReviews
            /\ MinRatingOk(c, params)
            /\ c \notin excluded}}

\* The candidate query of the popularity scorer: the outer joins of reviews
\* and favorites (and the join of the genre filter) multiply the rows of a
\* book, so each count is taken over the product.
GenreFactor(b, params) ==
    IF params.genres = {} THEN 1 ELSE Cardinality(BookGenres(b) \cap params.genres)

PopularityReviewCount(b, params) ==
    NumReviews(b) * (IF NumFavorites(b) = 0 THEN 1 ELSE NumFavorites(b))
        * GenreFactor(b, params)

PopularityFavoriteCount(b, params) ==
    NumFavorites(b) * (IF NumReviews(b) = 0 THEN 1 ELSE NumReviews(b))
        * GenreFactor(b, params)

PopularityCandidates(excluded, params) ==
    {Row(b, PopularityReviewCount(b, params), PopularityFavoriteCount(b, params)) :
        b \in {c \in Books :
            /\ GenreFactor(c, params) >= 1
            /\ PopularityReviewCount(c, params) >= PopularityMinReviews
            /\ MinRatingOk(c, params)
            /\ c \notin excluded}}

\* A fallback query without the filter of the books of the user.
FallbackCandidates_unexcluded(excluded) ==
    {Row(b, NumReviews(b), 0) : b \in {c \in Books : NumReviews(c) >= FallbackMinReviews}}

\* The candidate query of the fallback: reviews only, no rating floor.
FallbackCandidates(excluded) ==
    {Row(b, NumReviews(b), 0) : b \in
        {c \in Books : NumReviews(c) >= FallbackMinReviews /\ c \notin excluded}}

\* ------------------------------------------------------------ the scorers
\* round(genre_score * 0.6 + quality_score * 0.4, 3), in thousandths.
ContentScore(row, top) ==
    LET m == ContentMatches(row.book, top)
        t == Cardinality(top)
        R == row.rating_n
    IN  RoundHalfEven(600 * m * 100 * R + 56 * row.rating_sum * t
                        + 120 * Min(row.review_count, ReviewNorm) * t * R,
                      100 * t * R)

\* round(rating_score * 0.5 + review_score * 0.3 + favorite_score * 0.2, 3)
PopularityScore(row) ==
    RoundHalfEven(row.rating_sum
                    + (3 * Min(row.review_count, ReviewNorm)
                       + 4 * Min(row.favorite_count, FavoriteNorm)) * row.rating_n,
                  row.rating_n)

\* round(avg_rating / 5.0, 3)
FallbackScore(row) == RoundHalfEven(2 * row.rating_sum, row.rating_n)

Item(b, score, rec_type) ==
    [book |-> b, score |-> score, recommendation_type |-> rec_type]

RECURSIVE InsertByScore_after_equals(_, _)
\* An insertion that passes the items of equal score: a sort that reverses
\* the ties.
InsertByScore_after_equals(x, t) ==
    IF t = <<>> THEN <<x>>
    ELSE IF Head(t).score >= x.score
         THEN <<Head(t)>> \o InsertByScore_after_equals(x, Tail(t))
    ELSE <<x>> \o t

RECURSIVE InsertByScore(_, _)
InsertByScore(x, t) ==
    IF t = <<>> THEN <<x>>
    ELSE IF Head(t).score > x.score THEN <<Head(t)>> \o InsertByScore(x, Tail(t))
    ELSE <<x>> \o t

\* A scorer that returns the items in the order of the rows, without sorted().
SortedByScore_skipped(s) == s

RECURSIVE SortedByScore(_)
\* sorted(recommendations, key=lambda x: x.score, reverse=True): stable.
SortedByScore(s) ==
    IF s = <<>> THEN <<>> ELSE InsertByScore(Head(s), SortedByScore(Tail(s)))

\* ------------------------------------------------------------ the engine
\* What a try body or a handler ends with: kind "return" (a list) or "raise"
\* (an exception leaves it); queries are the queries it issued, in order;
\* faults the steps that failed; path tells which strategy made the list;
\* fallbacks counts the calls of _get_fallback_recommendations; books are the
\* rows of the candidate query the list was made from, as the query gave them.
Outcome(kind, items, books, queries, faults, path, fallbacks) ==
    [kind |-> kind, items |-> items, books |-> books, queries |-> queries,
     faults |-> faults, path |-> path, fallbacks |-> fallbacks]

\* The steps of a scorer at which a fault (an exception) may strike.
PrimaryFaults == {"none", "affinity", "exclusion", "candidate", "scoring"}
FallbackFaults == {"none", "fb_exclusion", "fb_candidate", "fb_scoring"}

ExclusionStep(params, name) ==
    IF params.exclude_user_books THEN <<name>> ELSE <<>>

\* The SQL statement a step issues. The exclusion query of the scorers (lines
\* 61-69 and 131-139) and that of the fallback (lines 213-221) are the same
\* statement with the same user_id; every other step has a statement of its
\* own.
Statement(name) ==
    IF name \in {"exclusion", "fb_exclusion"} THEN "user_book_ids" ELSE name

\* A fallback that stamps a fixed tag instead of its recommendation_type
\* argument.
FallbackItems_fixed_tag(books, rec_type) ==
    [i \in DOMAIN books |->
        Item(books[i].book, FallbackScore(books[i]), POPULARITY_BASED)]

\* _get_fallback_recommendations, the body of its try (lines 209-249).
FallbackItems(books, rec_type) ==
    [i \in DOMAIN books |-> Item(books[i].book, FallbackScore(books[i]), rec_type)]

FallbackTry(user_id, params, rec_type, ff) ==
    LET q1 == ExclusionStep(params, "fb_exclusion")
        q2 == q1 \o <<"fb_candidate">>
    IN  IF params.exclude_user_books /\ ff = "fb_exclusion"
        THEN {Outcome("raise", <<>>, <<>>, q1, <<"fb_exclusion">>, "fallback", 1)}
        ELSE IF ff = "fb_candidate"
        THEN {Outcome("raise", <<>>, <<>>, q2, <<"fb_candidate">>, "fallback", 1)}
        ELSE {IF books # <<>> /\ ff = "fb_scoring"
              THEN Outcome("raise", <<>>, <<>>, q2, <<"fb_scoring">>, "fallback", 1)
              ELSE Outcome("return", FallbackItems(books, rec_type), books, q2,
                           <<>>, "fallback", 1) :
              books \in QueryAll(FallbackCandidates(user_books(user_id, params)), params)}

\* A fallback without its except clause: the exception leaves it.
FallbackExcept_reraised(o) == o

\* except Exception: log and return [] (lines 251-253).
FallbackExcept(o) ==
    IF o.kind = "raise"
    THEN [o EXCEPT !.kind = "return", !.items = <<>>, !.books = <<>>]
    ELSE o

_get_fallback_recommendations(user_id, params, rec_type, ff) ==
    {FallbackExcept(o) : o \in FallbackTry(user_id, params, rec_type, ff)}

\* The outcome of a scorer that handed over to the fallback: the queries,
\* faults and fallback calls of both, the list (or exception) of the fallback.
HandOver(o, f, path) ==
    Outcome(f.kind, f.items, f.books, o.queries \o f.queries,
            o.faults \o f.faults, path, o.fallbacks + f.fallbacks)

\* A scorer without its except clause: the exception reaches the router.
ScorerExcept_reraised(o, user_id, params, rec_type, ff) == {o}

\* except Exception: log and return the fallback's list (lines 116-118 and
\* 196-198).
ScorerExcept(o, user_id, params, rec_type, ff) ==
    IF o.kind = "raise"
    THEN {HandOver(o, f, "fallback_error") :
            f \in _get_fallback_recommendations(user_id, params, rec_type, ff)}
    ELSE {o}

\* get_content_based_recommendations, lines 58-114: exclusion set, candidate
\* query, scoring and the sort by score, for one value of top_genre_ids.
ContentItems(books, top) ==
    [i \in DOMAIN books |->
        Item(books[i].book, ContentScore(books[i], top), CONTENT_BASED)]

ContentScorer(user_id, params, top, pf) ==
    LET q1 == <<"affinity">> \o ExclusionStep(params, "exclusion")
        q2 == q1 \o <<"candidate">>
    IN  IF params.exclude_user_books /\ pf = "exclusion"
        THEN {Outcome("raise", <<>>, <<>>, q1, <<"exclusion">>, "primary", 0)}
        ELSE IF pf = "candidate"
        THEN {Outcome("raise", <<>>, <<>>, q2, <<"candidate">>, "primary", 0)}
        ELSE {IF books # <<>> /\ pf = "scoring"
              THEN Outcome("raise", <<>>, <<>>, q2, <<"scoring">>, "primary", 0)
              ELSE Outcome("return", SortedByScore(ContentItems(books, top)), books,
                           q2, <<>>, "primary", 0) :
              books \in QueryAll(
                  ContentCandidates(top, user_books(user_id, params), params), params)}

\* A try body without the check of lines 51-53 for an empty affinity result.
ContentTry_unchecked(user_id, params, pf, ff) ==
    IF pf = "affinity"
    THEN {Outcome("raise", <<>>, <<>>, <<"affinity">>, <<"affinity">>, "primary", 0)}
    ELSE UNION {ContentScorer(user_id, params, top, pf) :
                    top \in top_genre_ids(user_id)}

\* get_content_based_recommendations, the body of its try (lines 39-114).
ContentTry(user_id, params, pf, ff) ==
    LET q0 == Outcome("return", <<>>, <<>>, <<"affinity">>, <<>>, "primary", 0)
    IN  IF pf = "affinity"
        THEN {[q0 EXCEPT !.kind = "raise", !.faults = <<"affinity">>]}
        ELSE IF user_favorite_genres(user_id) = {}
        THEN {HandOver(q0, f, "fallback_no_favorites") :
                f \in _get_fallback_recommendations(user_id, params, CONTENT_BASED, ff)}
        ELSE UNION {ContentScorer(user_id, params, top, pf) :
                        top \in top_genre_ids(user_id)}

get_content_based_recommendations(user_id, params, pf, ff) ==
    UNION {ScorerExcept(o, user_id, params, CONTENT_BASED, ff) :
            o \in ContentTry(user_id, params, pf, ff)}

\* get_popularity_based_recommendations, the body of its try (lines 128-194).
PopularityItems(books) ==
    [i \in DOMAIN books |->
        Item(books[i].book, PopularityScore(books[i]), POPULARITY_BASED)]

PopularityTry(user_id, params, pf) ==
    LET q1 == ExclusionStep(params, "exclusion")
        q2 == q1 \o <<"candidate">>
    IN  IF params.exclude_user_books /\ pf = "exclusion"
        THEN {Outcome("raise", <<>>, <<>>, q1, <<"exclusion">>, "primary", 0)}
        ELSE IF pf = "candidate"
        THEN {Outcome("raise", <<>>, <<>>, q2, <<"candidate">>, "primary", 0)}
        ELSE {IF books # <<>> /\ pf = "scoring"
              THEN Outcome("raise", <<>>, <<>>, q2, <<"scoring">>, "primary", 0)
              ELSE Outcome("return", SortedByScore(PopularityItems(books)), books,
                           q2, <<>>, "primary", 0) :
              books \in QueryAll(
                  PopularityCandidates(user_books(user_id, params), params), params)}

get_popularity_based_recommendations(user_id, params, pf, ff) ==
    UNION {ScorerExcept(o, user_id, params, POPULARITY_BASED, ff) :
            o \in PopularityTry(user_id, params, pf)}

\* ------------------------------------------------------------- the router
\* RecommendationParameters as the router builds them; min_rating 0 is None.
MinRatings == {0, 500}
GenreFilters == {{}, {1, 2}, Genres}

Params ==
    [limit : 1..MaxLimit, exclude_user_books : BOOLEAN,
     min_rating : MinRatings, genres : GenreFilters]

\* One list of a response: the recommendation_type the router stamps on it
\* and the outcome of the service call that made it.
List(rec_type, o) ==
    [recommendation_type |-> rec_type, items |-> o.items, books |-> o.books,
     queries |-> o.queries, faults |-> o.faults, path |-> o.path,
     fallbacks |-> o.fallbacks]

\* The router's try/except: HTTP 200 with the lists, or 500 when a service
\* call raised.
Response(endpoint, user_id, params, lists, raised) ==
    [endpoint |-> endpoint, user_id |-> user_id, params |-> params,
     faults |-> [i \in DOMAIN lists |-> lists[i].faults],
     status |-> IF raised THEN 500 ELSE 200,
     lists |-> IF raised THEN <<>> ELSE lists]

\* The faults pf and ff struck: a fault at a step that did not run changes
\* nothing, and the request is the one without it.
Struck(o, pf, ff) ==
    /\ IF pf = "none" THEN TRUE ELSE \E i \in 1..Len(o.faults) : o.faults[i] = pf
    /\ IF ff = "none" THEN TRUE ELSE \E i \in 1..Len(o.faults) : o.faults[i] = ff

\* A request is served when no response is on its way; or once more, with the
\* same user and parameters and meeting the same faults, before the response
\* is delivered and with the tables as they were.
MayServe(endpoint, user_id, params) ==
    IF resp = <<>> THEN TRUE
    ELSE /\ resp[1].endpoint = endpoint
         /\ resp[1].user_id = user_id
         /\ resp[1].params = params

SameFaults(faults) == IF resp = <<>> THEN TRUE ELSE resp[1].faults = faults

\* GET /recommendations/content-based/
content_based_endpoint(user_id, params, pf, ff) ==
    /\ MayServe("content-based", user_id, params)
    /\ \E o \in get_content_based_recommendations(user_id, params, pf, ff) :
         /\ Struck(o, pf, ff)
         /\ SameFaults(<<o.faults>>)
         /\ resp' = <<Response("content-based", user_id, params,
                               <<List(CONTENT_BASED, o)>>, o.kind = "raise")>>
    /\ UNCHANGED <<favorites, reviews, others>>

\* GET /recommendations/popularity-based/
popularity_based_endpoint(user_id, params, pf, ff) ==
    /\ MayServe("popularity-based", user_id, params)
    /\ \E o \in get_popularity_based_recommendations(user_id, params, pf, ff) :
         /\ Struck(o, pf, ff)
         /\ SameFaults(<<o.faults>>)
         /\ resp' = <<Response("popularity-based", user_id, params,
                               <<List(POPULARITY_BASED, o)>>, o.kind = "raise")>>
    /\ UNCHANGED <<favorites, reviews, others>>

\* GET /recommendations/all/: both services, one after the other, with the
\* same parameters and no genre filter.
all_endpoint(user_id, params) ==
    /\ params.genres = {}
    /\ MayServe("all", user_id, params)
    /\ \E c \in get_content_based_recommendations(user_id, params, "none", "none"),
          p \in get_popularity_based_recommendations(user_id, params, "none", "none") :
         /\ resp' = <<Response("all", user_id, params,
                               <<List(CONTENT_BASED, c), List(POPULARITY_BASED, p)>>,
                               c.kind = "raise" \/ p.kind = "raise")>>
    /\ UNCHANGED <<favorites, reviews, others>>

\* The response reaches the caller.
Deliver ==
    /\ resp # <<>>
    /\ resp' = <<>>
    /\ UNCHANGED <<favorites, reviews, others>>

\* ------------------------------------------------ the tables' own writers
\* FavoriteService.add_favorite: returns the existing row when there is one.
add_favorite(u, b) ==
    /\ resp = <<>>
    /\ <<u, b>> \notin favorites
    /\ Cardinality(favorites) < MaxFavorites
    /\ favorites' = favorites \cup {<<u, b>>}
    /\ UNCHANGED <<reviews, resp, others>>

\* FavoriteService.remove_favorite
remove_favorite(u, b) ==
    /\ resp = <<>>
    /\ <<u, b>> \in favorites
    /\ favorites' = favorites \ {<<u, b>>}
    /\ UNCHANGED <<reviews, resp, others>>

\* ReviewService.create_review: one review per (user, book).
create_review(u, b, rating) ==
    /\ resp = <<>>
    /\ reviews[u][b] = 0
    /\ TotalReviews < MaxReviews
    /\ reviews' = [reviews EXCEPT ![u][b] = rating]
    /\ UNCHANGED <<favorites, resp, others>>

\* ReviewService.delete_review
delete_review(u, b) ==
    /\ resp = <<>>
    /\ reviews[u][b] # 0
    /\ reviews' = [reviews EXCEPT ![u][b] = 0]
    /\ UNCHANGED <<favorites, resp, others>>

\* ------------------------------------------------- feedback and statistics
MaxFeedback == 3
NumHandlers == 2
MaxClock == 2

\* The request handlers that may serve POST /feedback/ at the same time.
Handlers == 1..NumHandlers

\* What the database clock may read when a row is inserted.
Clock == 1..MaxClock

\* context_data: None or a string of at most 500 characters.
ContextValues == {"None", "{page}"}

\* RecommendationFeedbackCreate, as the router receives it. The book may be
\* one of the catalog or (NumBooks + 1) one that is not in it.
FeedbackData ==
    [book_id : {1, NumBooks + 1}, recommendation_type : {CONTENT_BASED, POPULARITY_BASED},
     is_positive : BOOLEAN, context_data : ContextValues]

Idle == [pc |-> "idle", user_id |-> 0, data |-> <<>>, row |-> <<>>]

\* An entity built without its context_data.
FeedbackRow_without_context(id, user_id, d, now) ==
    [id |-> id, user_id |-> user_id, book_id |-> d.book_id,
     recommendation_type |-> d.recommendation_type, is_positive |-> d.is_positive,
     context_data |-> "None", created_at |-> now]

\* RecommendationFeedback(...) of lines 263-269, with the columns the database
\* fills: id from the sequence, created_at from server_default=func.now().
FeedbackRow(id, user_id, d, now) ==
    [id |-> id, user_id |-> user_id, book_id |-> d.book_id,
     recommendation_type |-> d.recommendation_type, is_positive |-> d.is_positive,
     context_data |-> d.context_data, created_at |-> now]

\* The rows a long-lived table holds before the requests of the model: as
\* many positive feedbacks of user 1 for book 1 from the popularity list.
HistoryRows == 1999

History ==
    [i \in 1..HistoryRows |->
        FeedbackRow(i, 1, [book_id |-> 1, recommendation_type |-> POPULARITY_BASED,
                           is_positive |-> TRUE, context_data |-> "None"], 1)]

\* The ids spent by the requests of the model and those the handlers are
\* about to take.
Submitted ==
    id_seq - (IF id_seq >= HistoryRows THEN HistoryRows ELSE 0)
        + Cardinality({h \in Handlers : calls[h].pc = "added"})

\* POST /recommendations/feedback/, up to self.db.add(feedback): the handler
\* holds the entity, the table is untouched.
feedback_add(h, user_id, d) ==
    /\ stats = <<>>
    /\ calls[h].pc = "idle"
    /\ Submitted < MaxFeedback
    /\ calls' = [calls EXCEPT ![h] = [pc |-> "added", user_id |-> user_id,
                                      data |-> <<d>>, row |-> <<>>]]
    /\ UNCHANGED <<engine, feedback, id_seq, stats, cache_keys, invalidated, txn>>

\* A commit that skips the INSERT when the table already holds a row of the
\* same user with the same inputs.
feedback_commit_deduplicated(h, now) ==
    /\ stats = <<>>
    /\ calls[h].pc = "added"
    /\ id_seq' = id_seq + 1
    /\ LET d == calls[h].data[1]
           row == [id |-> id_seq + 1, user_id |-> calls[h].user_id, book_id |-> d.book_id,
                   recommendation_type |-> d.recommendation_type,
                   is_positive |-> d.is_positive,
                   context_data |-> d.context_data, created_at |-> now]
           same == {i \in DOMAIN feedback :
                      [feedback[i] EXCEPT !.id = 0, !.created_at = 0]
                          = [row EXCEPT !.id = 0, !.created_at = 0]}
       IN  IF row.book_id \notin Books
           THEN /\ feedback' = feedback
                /\ calls' = [calls EXCEPT ![h].pc = "failed"]
           ELSE IF same # {}
           THEN /\ feedback' = feedback
                /\ calls' = [calls EXCEPT ![h].pc = "committed",
                                          ![h].row = <<feedback[CHOOSE i \in same : TRUE]>>]
           ELSE /\ feedback' = Append(feedback, row)
                /\ calls' = [calls EXCEPT ![h].pc = "committed", ![h].row = <<row>>]
    /\ UNCHANGED <<engine, stats, cache_keys, invalidated, txn>>

\* self.db.commit(): the INSERT takes the next id of the sequence; it fails
\* on the foreign key when the book is not in the catalog, and the id is
\* spent all the same.
feedback_commit(h, now) ==
    /\ stats = <<>>
    /\ calls[h].pc = "added"
    /\ id_seq' = id_seq + 1
    /\ LET row == FeedbackRow(id_seq + 1, calls[h].user_id, calls[h].data[1], now)
       IN  IF row.book_id \in Books
           THEN /\ feedback' = Append(feedback, row)
                /\ calls' = [calls EXCEPT ![h].pc = "committed", ![h].row = <<row>>]
           ELSE /\ feedback' = feedback
                /\ calls' = [calls EXCEPT ![h].pc = "failed"]
    /\ UNCHANGED <<engine, stats, cache_keys, invalidated, txn>>

\* self.db.refresh(feedback); return feedback: the router answers with the
\* row (or with HTTP 500 when the commit raised).
feedback_return(h) ==
    /\ stats = <<>>
    /\ calls[h].pc \in {"committed", "failed"}
    /\ calls' = [calls EXCEPT ![h] = Idle]
    /\ UNCHANGED <<engine, feedback, id_seq, stats, cache_keys, invalidated, txn>>

\* A query that forgets its filter.
feedback_data_unfiltered(recommendation_type) ==
    {feedback[i] : i \in DOMAIN feedback}

\* query.all() of get_recommendation_stats: the rows of the table, or those
\* of one type (the filter "None" is no filter).
feedback_data(recommendation_type) ==
    {feedback[i] : i \in {j \in DOMAIN feedback :
        recommendation_type = "None"
            \/ feedback[j].recommendation_type = recommendation_type}}

\* A loop without its else: every row counts as negative feedback.
RecommendationStats_without_else(rec_type, rows) ==
    LET mine == {r \in rows : r.recommendation_type = rec_type}
        total_feedback == Cardinality(mine)
        positive_feedback == Cardinality({r \in mine : r.is_positive})
    IN  [recommendation_type |-> rec_type, total_generated |-> 100,
         total_feedback |-> total_feedback,
         positive_feedback |-> positive_feedback,
         negative_feedback |-> total_feedback,
         feedback_rate |-> RoundHalfEven(1000 * total_feedback, 100),
         positive_rate |-> IF total_feedback > 0
                           THEN RoundHalfEven(1000 * positive_feedback, total_feedback)
                           ELSE 0]

\* One RecommendationStats (lines 309-325); feedback_rate and positive_rate
\* are rounded to 3 decimals and held in thousandths.
RecommendationStats(rec_type, rows) ==
    LET mine == {r \in rows : r.recommendation_type = rec_type}
        total_feedback == Cardinality(mine)
        positive_feedback == Cardinality({r \in mine : r.is_positive})
        negative_feedback == Cardinality({r \in mine : ~r.is_positive})
    IN  [recommendation_type |-> rec_type, total_generated |-> 100,
         total_feedback |-> total_feedback,
         positive_feedback |-> positive_feedback,
         negative_feedback |-> negative_feedback,
         feedback_rate |-> RoundHalfEven(1000 * total_feedback, 100),
         positive_rate |-> IF total_feedback > 0
                           THEN RoundHalfEven(1000 * positive_feedback, total_feedback)
                           ELSE 0]

\* get_recommendation_stats: one aggregate per type met in the rows, in the
\* order the types are first met, which is the order the database returns
\* the rows in (the query has no ORDER BY).
get_recommendation_stats(recommendation_type) ==
    LET rows == feedback_data(recommendation_type)
        met == {r.recommendation_type : r \in rows}
    IN  {[i \in 1..Cardinality(met) |-> RecommendationStats(p[i], rows)] :
            p \in {q \in [1..Cardinality(met) -> met] :
                      \A i, j \in DOMAIN q : i # j => q[i] # q[j]}}

StatsFilters == {"None", CONTENT_BASED, POPULARITY_BASED}

\* GET /recommendations/stats/
stats_endpoint(recommendation_type) ==
    /\ stats = <<>>
    /\ \E l \in get_recommendation_stats(recommendation_type) :
         stats' = <<[recommendation_type |-> recommendation_type, list |-> l]>>
    /\ UNCHANGED <<engine, feedback, id_seq, calls, cache_keys, invalidated, txn>>

\* The statistics reach the caller.
DeliverStats ==
    /\ stats # <<>>
    /\ stats' = <<>>
    /\ UNCHANGED <<engine, feedback, id_seq, calls, cache_keys, invalidated, txn>>

\* ---------------------------------------------------------- the cache key
\* Text is a sequence of one-character strings. The printable characters, in
\* the order of their codes 32..126 (the quotation mark, the backslash and
\* the grave accent, which no key text holds, by their names).
Printable ==
    <<" ", "!", "quote", "#", "$", "%", "&", "'", "(", ")", "*", "+",
      ",", "-", ".", "/", "0", "1", "2", "3", "4", "5", "6", "7",
      "8", "9", ":", ";", "<", "=", ">", "?", "@", "A", "B", "C",
      "D", "E", "F", "G", "H", "I", "J", "K", "L", "M", "N", "O",
      "P", "Q", "R", "S", "T", "U", "V", "W", "X", "Y", "Z", "[",
      "backslash", "]", "^", "_", "backtick", "a", "b", "c", "d", "e", "f", "g",
      "h", "i", "j", "k", "l", "m", "n", "o", "p", "q", "r", "s",
      "t", "u", "v", "w", "x", "y", "z", "{", "|", "}", "~">>

\* ord(c)
Ord(c) == 31 + CHOOSE i \in DOMAIN Printable : Printable[i] = c

\* str.encode(): the bytes of a text of printable characters.
encode(text) == [i \in DOMAIN text |-> Ord(text[i])]

NoneText == <<"N", "o", "n", "e">>

\* str(n) of a natural number.
RECURSIVE str_int(_)
str_int(n) ==
    IF n < 10 THEN <<Printable[17 + n]>>
    ELSE str_int(n \div 10) \o <<Printable[17 + (n % 10)]>>

\* str(b) of a bool.
str_bool(b) == IF b THEN <<"T", "r", "u", "e">> ELSE <<"F", "a", "l", "s", "e">>

\* str(x) of a float of at most two decimals, x given in hundredths: 500 is
\* 5.0, 450 is 4.5, 425 is 4.25.
str_float(h) ==
    str_int(h \div 100) \o <<".">> \o
    (IF h % 10 = 0 THEN str_int((h % 100) \div 10)
     ELSE str_int((h % 100) \div 10) \o str_int(h % 10))

\* str(l) of a list of ints.
RECURSIVE join_ints(_)
join_ints(l) ==
    IF l = <<>> THEN <<>>
    ELSE IF Len(l) = 1 THEN str_int(l[1])
    ELSE str_int(l[1]) \o <<",", " ">> \o join_ints(Tail(l))

str_list(l) == <<"[">> \o join_ints(l) \o <<"]">>

\* The text of a strategy tag.
str_tag(rec_type) ==
    IF rec_type = CONTENT_BASED THEN <<"c", "o", "n", "t", "e", "n", "t", "_", "b", "a", "s", "e", "d">>
    ELSE <<"p", "o", "p", "u", "l", "a", "r", "i", "t", "y", "_", "b", "a", "s", "e", "d">>

\* An Optional field is <<>> for None and <<v>> for the value v.
\* A params_str that leaves the genre filter out.
params_str_without_genres(params) ==
    (IF params.limit = <<>> THEN NoneText ELSE str_int(params.limit[1]))
    \o <<"_">> \o
    (IF params.exclude_user_books = <<>> THEN NoneText
     ELSE str_bool(params.exclude_user_books[1]))
    \o <<"_">> \o
    (IF params.min_rating = <<>> THEN NoneText ELSE str_float(params.min_rating[1]))

\* params_str of line 332.
params_str(params) ==
    (IF params.limit = <<>> THEN NoneText ELSE str_int(params.limit[1]))
    \o <<"_">> \o
    (IF params.exclude_user_books = <<>> THEN NoneText
     ELSE str_bool(params.exclude_user_books[1]))
    \o <<"_">> \o
    (IF params.min_rating = <<>> THEN NoneText ELSE str_float(params.min_rating[1]))
    \o <<"_">> \o
    (IF params.genres = <<>> THEN NoneText ELSE str_list(params.genres[1]))

\* cache_string of line 333.
cache_string(user_id, rec_type, params) ==
    <<"r", "e", "c", "_">> \o str_int(user_id) \o <<"_">> \o str_tag(rec_type)
    \o <<"_">> \o params_str(params)

\* hashlib.md5 (RFC 1321). A 32-bit word is <<high half, low half>>, each
\* half in 0..65535.
\* The bitwise AND and XOR of two numbers below 16, bit by bit.
RECURSIVE AndBits(_, _)
AndBits(a, b) ==
    IF a = 0 \/ b = 0 THEN 0
    ELSE (a % 2) * (b % 2) + 2 * AndBits(a \div 2, b \div 2)

RECURSIVE XorBits(_, _)
XorBits(a, b) ==
    IF a = 0 THEN b
    ELSE IF b = 0 THEN a
    ELSE ((a + b) % 2) + 2 * XorBits(a \div 2, b \div 2)

AndTable == [a \in 0..15 |-> [b \in 0..15 |-> AndBits(a, b)]]
XorTable == [a \in 0..15 |-> [b \in 0..15 |-> XorBits(a, b)]]

\* The same of two halves, four bits at a time.
And16(a, b) ==
    AndTable[a % 16][b % 16]
    + 16 * AndTable[(a \div 16) % 16][(b \div 16) % 16]
    + 256 * AndTable[(a \div 256) % 16][(b \div 256) % 16]
    + 4096 * AndTable[a \div 4096][b \div 4096]

Xor16(a, b) ==
    XorTable[a % 16][b % 16]
    + 16 * XorTable[(a \div 16) % 16][(b \div 16) % 16]
    + 256 * XorTable[(a \div 256) % 16][(b \div 256) % 16]
    + 4096 * XorTable[a \div 4096][b \div 4096]

And32(x, y) == <<And16(x[1], y[1]), And16(x[2], y[2])>>
Or32(x, y) == <<x[1] + y[1] - And16(x[1], y[1]), x[2] + y[2] - And16(x[2], y[2])>>
Xor32(x, y) == <<Xor16(x[1], y[1]), Xor16(x[2], y[2])>>
Not32(x) == <<65535 - x[1], 65535 - x[2]>>

Add32(x, y) ==
    LET lo == x[2] + y[2]
    IN  <<(x[1] + y[1] + (lo \div 65536)) % 65536, lo % 65536>>

RotateLeft(x, s) ==
    LET y == IF s >= 16 THEN <<x[2], x[1]>> ELSE x
        r == s % 16
    IN  IF r = 0 THEN y
        ELSE <<((y[1] * 2^r) % 65536) + (y[2] \div 2^(16 - r)),
               ((y[2] * 2^r) % 65536) + (y[1] \div 2^(16 - r))>>

\* The per-round shifts and the constants floor(2^32 * abs(sin(i + 1))).
MD5Shift ==
    <<7, 12, 17, 22, 7, 12, 17, 22, 7, 12, 17, 22, 7, 12, 17, 22,
      5, 9, 14, 20, 5, 9, 14, 20, 5, 9, 14, 20, 5, 9, 14, 20,
      4, 11, 16, 23, 4, 11, 16, 23, 4, 11, 16, 23, 4, 11, 16, 23,
      6, 10, 15, 21, 6, 10, 15, 21, 6, 10, 15, 21, 6, 10, 15, 21>>

MD5Sine ==
    <<<<55146, 42104>>, <<59591, 46934>>, <<9248, 28891>>, <<49597, 52974>>,
      <<62844, 4015>>, <<18311, 50730>>, <<43056, 17939>>, <<64838, 38145>>,
      <<27008, 39128>>, <<35652, 63407>>, <<65535, 23473>>, <<35164, 55230>>,
      <<27536, 4386>>, <<64920, 29075>>, <<42617, 17294>>, <<18868, 2081>>,
      <<63006, 9570>>, <<49216, 45888>>, <<9822, 23121>>, <<59830, 51114>>,
      <<54831, 4189>>, <<580, 5203>>, <<55457, 59009>>, <<59347, 64456>>,
      <<8673, 52710>>, <<49975, 2006>>, <<62677, 3463>>, <<17754, 5357>>,
      <<43491, 59653>>, <<64751, 41976>>, <<26479, 729>>, <<36138, 19594>>,
      <<65530, 14658>>, <<34673, 63105>>, <<28061, 24866>>, <<64997, 14348>>,
      <<42174, 59972>>, <<19422, 53161>>, <<63163, 19296>>, <<48831, 48240>>,
      <<10395, 32454>>, <<60065, 10234>>, <<54511, 12421>>, <<1160, 7429>>,
      <<55764, 53305>>, <<59099, 39397>>, <<8098, 31992>>, <<50348, 22117>>,
      <<62505, 8772>>, <<17194, 65431>>, <<43924, 9127>>, <<64659, 41017>>,
      <<25947, 22979>>, <<36620, 52370>>, <<65519, 62589>>, <<34180, 24017>>,
      <<28584, 32335>>, <<65068, 59104>>, <<41729, 17172>>, <<19976, 4513>>,
      <<63315, 32386>>, <<48442, 62005>>, <<10967, 53947>>, <<60294, 54161>>>>

\* The message with its padding: 0x80, zeros up to 56 modulo 64, and the
\* length in bits as 8 little-endian bytes.
MD5Pad(bytes) ==
    LET n == Len(bytes)
        zeros == (119 - (n % 64)) % 64
        bits == 8 * n
    IN  bytes \o <<128>> \o [i \in 1..zeros |-> 0]
        \o <<bits % 256, (bits \div 256) % 256, (bits \div 65536) % 256, 0, 0, 0, 0, 0>>

\* The 16 little-endian words of block k (from 0) of the padded message.
MD5Block(padded, k) ==
    [j \in 0..15 |->
        LET at == 64 * k + 4 * j
        IN  <<padded[at + 3] + 256 * padded[at + 4],
              padded[at + 1] + 256 * padded[at + 2]>>]

\* Operation i (from 0) of a block and the operations after it, on the four
\* words v of the running state.
RECURSIVE MD5Rounds(_, _, _)
MD5Rounds(i, v, M) ==
    IF i = 64 \/ Len(v) # 4 THEN v
    ELSE LET A == v[1]
             B == v[2]
             C == v[3]
             D == v[4]
             F == IF i < 16 THEN Or32(And32(B, C), And32(Not32(B), D))
                  ELSE IF i < 32 THEN Or32(And32(D, B), And32(Not32(D), C))
                  ELSE IF i < 48 THEN Xor32(B, Xor32(C, D))
                  ELSE Xor32(C, Or32(B, Not32(D)))
             g == IF i < 16 THEN i
                  ELSE IF i < 32 THEN (5 * i + 1) % 16
                  ELSE IF i < 48 THEN (3 * i + 5) % 16
                  ELSE (7 * i) % 16
             sum == Add32(Add32(F, A), Add32(MD5Sine[i + 1], M[g]))
         IN  MD5Rounds(i + 1, <<D, Add32(B, RotateLeft(sum, MD5Shift[i + 1])), B, C>>, M)

RECURSIVE MD5Blocks(_, _, _)
MD5Blocks(padded, k, v) ==
    IF 64 * k >= Len(padded) THEN v
    ELSE LET w == MD5Rounds(0, v, MD5Block(padded, k))
         IN  MD5Blocks(padded, k + 1,
                       <<Add32(v[1], w[1]), Add32(v[2], w[2]),
                         Add32(v[3], w[3]), Add32(v[4], w[4])>>)

\* The four words of the digest.
md5(bytes) ==
    MD5Blocks(MD5Pad(bytes), 0,
              <<<<26437, 8961>>, <<61389, 43913>>, <<39098, 56574>>, <<4146, 21622>>>>)

HexDigits == <<"0", "1", "2", "3", "4", "5", "6", "7", "8", "9", "a", "b", "c", "d", "e", "f">>

\* hexdigest(): two characters for each byte of the words, low byte first.
hexdigest(words) ==
    LET byte(n) == LET w == words[(n \div 4) + 1]
                       half == IF n % 4 < 2 THEN w[2] ELSE w[1]
                   IN  IF n % 2 = 0 THEN half % 256 ELSE half \div 256
    IN  [c \in 1..(8 * Len(words)) |->
            LET b == byte((c - 1) \div 2)
            IN  HexDigits[(IF c % 2 = 1 THEN b \div 16 ELSE b % 16) + 1]]

\* _generate_cache_key (lines 329-335).
_generate_cache_key(user_id, rec_type, params) ==
    hexdigest(md5(encode(cache_string(user_id, rec_type, params))))

\* The parameters keys are asked for: the default limit of the schema and the
\* longest list of the requests above, with and without each optional filter.
MaxKeys == 2
DefaultLimit == 10
CacheParams ==
    [limit : {<<MaxLimit>>, <<DefaultLimit>>},
     exclude_user_books : {<<TRUE>>, <<FALSE>>},
     min_rating : {<<>>, <<0>>, <<450>>},
     genres : {<<>>, <<<<>>>>, <<<<1, 2>>>>}]

CacheInputs ==
    [user_id : {1, NumUsers}, rec_type : {CONTENT_BASED, POPULARITY_BASED},
     params : CacheParams]

\* The fields in which two inputs of _generate_cache_key differ.
KeyFields ==
    {"user_id", "rec_type", "limit", "exclude_user_books", "min_rating", "genres"}

FieldOf(in, f) ==
    IF f = "user_id" THEN <<in.user_id>>
    ELSE IF f = "rec_type" THEN <<in.rec_type>>
    ELSE in.params[f]

Differing(a, b) == {f \in KeyFields : FieldOf(a, f) # FieldOf(b, f)}

\* A call of _generate_cache_key, recorded with the key it returned; a call
\* after the first repeats the input of the call before it or changes one
\* field of it.
cache_key_call(in) ==
    /\ Len(cache_keys) < MaxKeys
    /\ IF cache_keys = <<>> THEN TRUE
       ELSE Cardinality(Differing(cache_keys[Len(cache_keys)].in, in)) <= 1
    /\ cache_keys' = Append(cache_keys,
                            [in |-> in,
                             key |-> _generate_cache_key(in.user_id, in.rec_type, in.params)])
    /\ UNCHANGED <<engine, feedback, id_seq, calls, stats, invalidated, txn>>

\* ------------------------------------------------------- cache invalidation
\* invalidate_user_cache (lines 337-344): one line of log, nothing evicted,
\* nothing returned.
invalidate_user_cache(user_id) == "return"

\* POST /recommendations/invalidate-cache/: 200 with the message, 500 had the
\* service call raised.
invalidate_cache_endpoint(user_id) ==
    /\ invalidated = <<>>
    /\ invalidated' =
           <<[user_id |-> user_id,
              status |-> IF invalidate_user_cache(user_id) = "raise" THEN 500 ELSE 200]>>
    /\ UNCHANGED <<engine, feedback, id_seq, calls, stats, cache_keys, txn>>

\* The answer of the invalidation reaches the caller.
DeliverInvalidated ==
    /\ invalidated # <<>>
    /\ invalidated' = <<>>
    /\ UNCHANGED <<engine, feedback, id_seq, calls, stats, cache_keys, txn>>

Init ==
    /\ favorites = {}
    /\ reviews = [u \in Users |-> [b \in Books |-> 0]]
    /\ resp = <<>>
    /\ feedback = <<>>
    /\ id_seq = 0
    /\ calls = [h \in Handlers |-> Idle]
    /\ stats = <<>>
    /\ cache_keys = <<>>
    /\ invalidated = <<>>
    /\ txn = <<>>

\* The users who ask for recommendations (every user writes reviews and
\* favorites).
NumRequesters == 1
Requesters == 1..NumRequesters

\* The services that write the tables.
Writers ==
    \/ \E u \in Users, b \in Books : add_favorite(u, b)
    \/ \E u \in Users, b \in Books : remove_favorite(u, b)
    \/ \E u \in Users, b \in Books, r \in RatingValues : create_review(u, b, r)
    \/ \E u \in Users, b \in Books : delete_review(u, b)

\* Every request, with a fault at the candidate query of the scorer, of the
\* fallback, of both or of none.
Next ==
    \/ Writers
    \/ \E u \in Requesters, p \in Params,
          pf \in {"none", "candidate"}, ff \in {"none", "fb_candidate"} :
         /\ p.genres = {}
         /\ content_based_endpoint(u, p, pf, ff)
    \/ \E u \in Requesters, p \in Params,
          pf \in {"none", "candidate"}, ff \in {"none", "fb_candidate"} :
         popularity_based_endpoint(u, p, pf, ff)
    \/ \E u \in Requesters, p \in Params : all_endpoint(u, p)
    \/ Deliver

\* Requests of the longest list, without rating floor or genre filter, with a
\* fault at any step of the scorer and of the fallback.
FaultParams ==
    {p \in Params : p.limit = MaxLimit /\ p.min_rating = 0 /\ p.genres = {}}

FaultNext ==
    \/ Writers
    \/ \E u \in Requesters, p \in FaultParams,
          pf \in PrimaryFaults, ff \in FallbackFaults :
         content_based_endpoint(u, p, pf, ff)
    \/ \E u \in Requesters, p \in FaultParams,
          pf \in PrimaryFaults \ {"affinity"}, ff \in FallbackFaults :
         popularity_based_endpoint(u, p, pf, ff)
    \/ Deliver

FaultSpec == Init /\ [][FaultNext]_vars

Spec == Init /\ [][Next]_vars

\* The feedback recorder and the statistics, with the handlers of
\* POST /feedback/ interleaved.
FeedbackNext ==
    \/ \E h \in Handlers, u \in Requesters, d \in FeedbackData : feedback_add(h, u, d)
    \/ \E h \in Handlers, now \in Clock : feedback_commit(h, now)
    \/ \E h \in Handlers : feedback_return(h)
    \/ \E t \in StatsFilters : stats_endpoint(t)
    \/ DeliverStats

FeedbackSpec == Init /\ [][FeedbackNext]_vars

\* The same requests, one at a time, on a table that already holds History.
BulkInit ==
    /\ favorites = {}
    /\ reviews = [u \in Users |-> [b \in Books |-> 0]]
    /\ resp = <<>>
    /\ feedback = History
    /\ id_seq = HistoryRows
    /\ calls = [h \in Handlers |-> Idle]
    /\ stats = <<>>
    /\ cache_keys = <<>>
    /\ invalidated = <<>>
    /\ txn = <<>>

BulkData == {d \in FeedbackData : d.book_id = 1 /\ d.context_data = "None"}

BulkNext ==
    \/ \E u \in Requesters, d \in BulkData : feedback_add(1, u, d)
    \/ feedback_commit(1, 1)
    \/ feedback_return(1)
    \/ \E t \in StatsFilters : stats_endpoint(t)
    \/ DeliverStats

BulkSpec == BulkInit /\ [][BulkNext]_vars

\* Calls of the cache-key helper, one after another.
CacheNext == \E in \in CacheInputs : cache_key_call(in)

CacheSpec == Init /\ [][CacheNext]_vars

\* Every operation of the engine next to the writers of the tables: requests
\* of the longest list without filter and without fault, one feedback, the
\* statistics, a cache key and the invalidation. A feedback or an invalidation
\* may come while a recommendation response is on its way; the statistics and
\* the cache key are asked for between the requests.
FrameParams ==
    {p \in Params : p.limit = MaxLimit /\ p.min_rating = 0 /\ p.genres = {}}

FrameInputs ==
    {in \in CacheInputs : /\ in.user_id = 1
                          /\ in.rec_type = CONTENT_BASED
                          /\ in.params = [limit |-> <<DefaultLimit>>,
                                          exclude_user_books |-> <<TRUE>>,
                                          min_rating |-> <<>>, genres |-> <<>>]}

FrameNext ==
    \/ \E u \in Requesters, b \in Books : add_favorite(u, b)
    \/ \E u \in Users, b \in Books : create_review(u, b, 500)
    \/ \E u \in Requesters, p \in FrameParams :
         content_based_endpoint(u, p, "none", "none")
    \/ \E u \in Requesters, p \in FrameParams :
         popularity_based_endpoint(u, p, "none", "none")
    \/ Deliver
    \/ \E u \in Requesters, d \in BulkData :
         id_seq = 0 /\ invalidated = <<>> /\ feedback_add(1, u, d)
    \/ feedback_commit(1, 1)
    \/ feedback_return(1)
    \/ resp = <<>> /\ invalidated = <<>> /\ stats_endpoint("None")
    \/ DeliverStats
    \/ \E in \in FrameInputs :
         /\ resp = <<>> /\ stats = <<>> /\ invalidated = <<>> /\ calls[1].pc = "idle"
         /\ cache_keys = <<>>
         /\ cache_key_call(in)
    \/ \E u \in Requesters :
         stats = <<>> /\ calls[1].pc = "idle" /\ invalidate_cache_endpoint(u)
    \/ DeliverInvalidated

FrameSpec == Init /\ [][FrameNext]_vars

\* The requests on any tables of the bounded catalog: every user may have
\* reviewed every book, and the requesters may have favorited any books.
CatalogInit ==
    /\ favorites \in SUBSET (Requesters \X Books)
    /\ reviews \in [Users -> [Books -> {0} \cup RatingValues]]
    /\ resp = <<>>
    /\ feedback = <<>>
    /\ id_seq = 0
    /\ calls = [h \in Handlers |-> Idle]
    /\ stats = <<>>
    /\ cache_keys = <<>>
    /\ invalidated = <<>>
    /\ txn = <<>>

CatalogParams == {p \in Params : p.min_rating = 0 /\ p.genres = {}}

CatalogNext ==
    \/ \E u \in Requesters, p \in CatalogParams :
         content_based_endpoint(u, p, "none", "none")
    \/ \E u \in Requesters, p \in CatalogParams :
         popularity_based_endpoint(u, p, "none", "none")
    \/ Deliver

CatalogSpec == CatalogInit /\ [][CatalogNext]_vars

\* Popularity-based requests with a genre allow-list, over every reviews
\* table and every set of favorites of the requesters, with a fault at the
\* candidate query of the scorer or none.
GenreParams ==
    [limit : 1..MaxLimit, exclude_user_books : BOOLEAN,
     min_rating : {0}, genres : {{1}, {2, 3}}]

GenreNext ==
    \/ \E u \in Requesters, p \in GenreParams, pf \in {"none", "candidate"} :
         popularity_based_endpoint(u, p, pf, "none")
    \/ Deliver

GenreSpec == CatalogInit /\ [][GenreNext]_vars

\* ------------------------------------------- a request, query by query
\* The read view a request opens over the interaction data: the favorites
\* and reviews committed when its first query starts. Every query of the
\* request, and of the fallback it may call, reads this view.
ReadView == [favorites |-> favorites, reviews |-> reviews]

\* The service call of an endpoint.
ServiceCall(endpoint, user_id, params, pf) ==
    IF endpoint = "content-based"
    THEN get_content_based_recommendations(user_id, params, pf, "none")
    ELSE get_popularity_based_recommendations(user_id, params, pf, "none")

ListTag(endpoint) ==
    IF endpoint = "content-based" THEN CONTENT_BASED ELSE POPULARITY_BASED

\* The first query of a request is issued and opens the view; o is what the
\* queries of the request give on that view, pc the query last issued.
open_read_view(endpoint, user_id, params, pf) ==
    /\ resp = <<>>
    /\ txn = <<>>
    /\ \E o \in ServiceCall(endpoint, user_id, params, pf) :
         /\ Struck(o, pf, "none")
         /\ txn' = <<[endpoint |-> endpoint, user_id |-> user_id, params |-> params,
                      view |-> ReadView, outcome |-> o, pc |-> 1]>>
    /\ UNCHANGED <<engine, feedback, id_seq, calls, stats, cache_keys, invalidated>>

\* The next query of the request is issued (lines 41-88, 129-170, 211-235).
next_query ==
    /\ txn # <<>>
    /\ txn[1].pc < Len(txn[1].outcome.queries)
    /\ txn' = <<[txn[1] EXCEPT !.pc = @ + 1]>>
    /\ UNCHANGED <<engine, feedback, id_seq, calls, stats, cache_keys, invalidated>>

\* The last query has been answered: the items are scored and returned.
finish_request ==
    /\ txn # <<>>
    /\ resp = <<>>
    /\ txn[1].pc = Len(txn[1].outcome.queries)
    /\ resp' = <<Response(txn[1].endpoint, txn[1].user_id, txn[1].params,
                          <<List(ListTag(txn[1].endpoint), txn[1].outcome)>>,
                          txn[1].outcome.kind = "raise")>>
    /\ txn' = <<[txn[1] EXCEPT !.pc = 0]>>
    /\ UNCHANGED <<favorites, reviews, feedback, id_seq, calls, stats, cache_keys,
                   invalidated>>

\* The response reaches the caller and the session of the request is closed.
close_read_view ==
    /\ txn # <<>>
    /\ txn[1].pc = 0
    /\ resp # <<>>
    /\ resp' = <<>>
    /\ txn' = <<>>
    /\ UNCHANGED <<favorites, reviews, feedback, id_seq, calls, stats, cache_keys,
                   invalidated>>

\* Requests served query by query, with exclusion enabled or not, while
\* other requests add favorites and reviews between the queries.
RaceParams == {p \in Params : p.limit = MaxLimit /\ p.min_rating = 0 /\ p.genres = {}}

RaceNext ==
    \/ \E u \in Requesters, b \in Books : add_favorite(u, b)
    \/ \E u \in Users, b \in Books : create_review(u, b, 500)
    \/ \E u \in Requesters, p \in RaceParams, pf \in {"none", "candidate"} :
         open_read_view("content-based", u, p, pf)
    \/ \E u \in Requesters, p \in RaceParams, pf \in {"none", "candidate"} :
         open_read_view("popularity-based", u, p, pf)
    \/ next_query
    \/ finish_request
    \/ close_read_view

RaceSpec == Init /\ [][RaceNext]_vars

\* ================================================================ claims
\* The lists of the response on its way (none when there is no response).
Lists == IF resp = <<>> THEN {} ELSE {resp[1].lists[i] : i \in DOMAIN resp[1].lists}

\* The books the user of the response has favorited or reviewed.
Interacted == {b \in Books : <<resp[1].user_id, b>> \in favorites
                                \/ reviews[resp[1].user_id][b] # 0}

Tied(l, i, j) == i < j /\ l.items[i].score = l.items[j].score

\* C1: with exclude_user_books set, no returned item, of the primary scorers
\* or of the fallback, is a book its user has favorited or reviewed.
C1_ExcludedNeverReturned ==
    \A l \in Lists : \A k \in DOMAIN l.items :
        resp[1].params.exclude_user_books => l.items[k].book \notin Interacted

\* A book of the user with reviews was left out and another book returned.
C1_Witness ==
    /\ resp # <<>>
    /\ resp[1].params.exclude_user_books
    /\ \E b \in Interacted : NumReviews(b) >= 1
    /\ \E l \in Lists : l.path = "primary" /\ l.items # <<>>

\* C2: no returned list is longer than params.limit, on any path; the
\* combined endpoint returns two such lists.
C2_AtMostLimit ==
    /\ \A l \in Lists : Len(l.items) <= resp[1].params.limit
    /\ resp # <<>> /\ resp[1].endpoint = "all" /\ resp[1].status = 200
           => Len(resp[1].lists) = 2

\* Both lists of the combined endpoint were cut at limit 1 with two books
\* eligible.
C2_Witness ==
    /\ resp # <<>>
    /\ resp[1].endpoint = "all"
    /\ resp[1].params.limit = 1
    /\ ~resp[1].params.exclude_user_books
    /\ \A b \in {1, 2} : NumReviews(b) >= 1
    /\ \A l \in Lists : Len(l.items) = 1

\* C3: every returned list is in non-increasing order of score, the lists of
\* the fallback included.
C3_SortedByScore ==
    \A l \in Lists : \A i, j \in DOMAIN l.items :
        i < j => l.items[i].score >= l.items[j].score

\* A fallback list of two scores, and a popularity list that the sort by
\* score put in another order than the query's.
C3_Witness ==
    /\ \E l \in Lists :
         /\ l.path = "fallback_no_favorites"
         /\ Len(l.items) = 2
         /\ l.items[1].score > l.items[2].score
    /\ \E l \in Lists :
         /\ l.path = "primary"
         /\ l.recommendation_type = POPULARITY_BASED
         /\ Len(l.items) = 2
         /\ l.items[1].book = l.books[2].book
         /\ l.items[1].score > l.items[2].score

\* The row of the candidate query an item was made from.
RowOf(l, k) == CHOOSE r \in {l.books[i] : i \in DOMAIN l.books} : r.book = l.items[k].book

\* The place of that row in the result of the candidate query.
PosOf(l, k) == CHOOSE p \in DOMAIN l.books : l.books[p].book = l.items[k].book

\* The counts of the candidate query are the real counts of the books: no
\* join multiplied the rows of a book of the list.
RealCounts(l) ==
    \A i \in DOMAIN l.books :
        /\ l.books[i].review_count = NumReviews(l.books[i].book)
        /\ l.books[i].favorite_count \in {0, NumFavorites(l.books[i].book)}

\* C4, as claimed: items of equal score are in descending order of review
\* count, then of favorite count (stated for the lists whose query counted
\* the reviews and favorites of each book once).
C4_TiesByReviewCount ==
    \A l \in Lists : \A i, j \in DOMAIN l.items :
        Tied(l, i, j) /\ RealCounts(l) =>
            \/ NumReviews(l.items[i].book) > NumReviews(l.items[j].book)
            \/ /\ NumReviews(l.items[i].book) = NumReviews(l.items[j].book)
               /\ NumFavorites(l.items[i].book) >= NumFavorites(l.items[j].book)

\* C4, amended: items of equal score are in the order of the candidate query,
\* which is by descending mean rating first, then by the query's review
\* count, then by its favorite count.
C4_TiesInQueryOrder ==
    \A l \in Lists : \A i, j \in DOMAIN l.items :
        Tied(l, i, j) =>
            /\ PosOf(l, i) < PosOf(l, j)
            /\ ~OrderBefore(RowOf(l, j), RowOf(l, i))

\* Two items of equal score and different mean rating.
C4_Witness ==
    \E l \in Lists : \E i, j \in DOMAIN l.items :
        /\ Tied(l, i, j)
        /\ AvgGreater(RowOf(l, i), RowOf(l, j))

\* C5, as claimed: a request served again, with the tables unchanged, gets
\* the same books in the same order.
C5_SameListsAgain ==
    [][(resp # <<>> /\ resp' # <<>>) => resp'[1].lists = resp[1].lists]_vars

\* The step of the primary scorer that failed in the i-th service call of the
\* response, "none" when none did.
PrimaryFault(i) ==
    LET f == resp[1].faults[i]
    IN  IF f # <<>> /\ f[1] \in PrimaryFaults THEN f[1] ELSE "none"

FallbackFaulted(l) == \E k \in DOMAIN l.faults : l.faults[k] \in FallbackFaults

\* What _get_fallback_recommendations may return to the service call that
\* made list l, whichever fault it meets.
FallbackOf(l) ==
    UNION {_get_fallback_recommendations(resp[1].user_id, resp[1].params,
                                         l.recommendation_type, ff) :
             ff \in FallbackFaults}

\* C6: a fault at any step of a primary scorer does not reach the caller: the
\* scorer calls the fallback once, with the same user, parameters and tag,
\* and returns the fallback's list.
C6_FaultHandedToFallback ==
    resp # <<>> =>
        \A i \in DOMAIN resp[1].faults :
            PrimaryFault(i) # "none" =>
                /\ resp[1].status = 200
                /\ i \in DOMAIN resp[1].lists
                /\ LET l == resp[1].lists[i]
                   IN  /\ l.path = "fallback_error"
                       /\ l.fallbacks = 1
                       /\ \E f \in FallbackOf(l) :
                            /\ f.items = l.items
                            /\ f.faults = SubSeq(l.faults, 2, Len(l.faults))

\* The scoring loop of a primary scorer failed and the caller got the items
\* of the fallback.
C6_Witness ==
    /\ resp # <<>>
    /\ PrimaryFault(1) = "scoring"
    /\ resp[1].status = 200
    /\ resp[1].lists[1].items # <<>>

\* C7: the fallback never raises; a fault at any of its steps gives the empty
\* list, so every request ends with a list and status 200.
C7_FallbackNeverRaises ==
    resp # <<>> =>
        /\ resp[1].status = 200
        /\ Len(resp[1].lists) >= 1
        /\ \A l \in Lists : FallbackFaulted(l) => l.items = <<>>

\* The scoring loop of the fallback failed, with books to score, and the
\* caller got the empty list.
C7_Witness ==
    /\ resp # <<>>
    /\ resp[1].status = 200
    /\ \E l \in Lists :
         /\ \E k \in DOMAIN l.faults : l.faults[k] = "fb_scoring"
         /\ l.items = <<>>

\* The user of the response has no favorited book that carries a genre.
NoAffinity ==
    \A b \in Books : <<resp[1].user_id, b>> \in favorites => BookGenres(b) = {}

\* C8: with an empty affinity set the content-based service returns the list
\* of the fallback for the same user and parameters with tag content_based,
\* and runs no candidate query of its own.
C8_NoFavoritesGoesToFallback ==
    \A l \in Lists :
        l.recommendation_type = CONTENT_BASED /\ NoAffinity =>
            /\ l.path = "fallback_no_favorites"
            /\ l.fallbacks = 1
            /\ \A k \in DOMAIN l.queries : l.queries[k] # "candidate"
            /\ \E f \in FallbackOf(l) : f.items = l.items /\ f.faults = l.faults

\* A user without favorites got the books of the fallback from the
\* content-based endpoint.
C8_Witness ==
    /\ resp # <<>>
    /\ resp[1].endpoint = "content-based"
    /\ NoAffinity
    /\ resp[1].lists[1].items # <<>>
    /\ resp[1].lists[1].queries = <<"affinity", "fb_exclusion", "fb_candidate">>

EndpointTags(endpoint) ==
    IF endpoint = "content-based" THEN <<CONTENT_BASED>>
    ELSE IF endpoint = "popularity-based" THEN <<POPULARITY_BASED>>
    ELSE <<CONTENT_BASED, POPULARITY_BASED>>

\* C9: every item carries the tag of the service that returned it, which is
\* the tag of the response (or of the field of the combined response) it is
\* in, on every path.
C9_ItemsCarryRequestedTag ==
    resp # <<>> =>
        \A i \in DOMAIN resp[1].lists :
            LET l == resp[1].lists[i]
            IN  /\ l.recommendation_type = EndpointTags(resp[1].endpoint)[i]
                /\ \A k \in DOMAIN l.items :
                     l.items[k].recommendation_type = l.recommendation_type

\* A content-based response whose items were made by the fallback.
C9_Witness ==
    \E l \in Lists :
        /\ l.recommendation_type = CONTENT_BASED
        /\ l.path = "fallback_error"
        /\ l.items # <<>>

\* C10, as claimed: with min_rating = m > 0 no returned book has a mean
\* rating below m, on any path.
C10_MinRatingOnEveryPath ==
    \A l \in Lists : \A k \in DOMAIN l.items :
        resp[1].params.min_rating # 0 =>
            RatingSum(l.items[k].book)
                >= resp[1].params.min_rating * NumReviews(l.items[k].book)

\* The lists a primary scorer made itself, without fault and without the
\* fallback.
PrimaryLists(rec_type) ==
    {l \in Lists : l.recommendation_type = rec_type /\ l.path = "primary"}

\* The row a candidate query would give for book b had it counted each review
\* and each favorite of b once.
RealRow(b) == Row(b, NumReviews(b), NumFavorites(b))

\* C11, as claimed: every item of the content-based primary path is a book
\* with at least 3 reviews.
C11_ContentReviewFloor ==
    \A l \in PrimaryLists(CONTENT_BASED) : \A k \in DOMAIN l.items :
        NumReviews(l.items[k].book) >= ContentMinReviews

\* C12, as claimed: the score of every item of the popularity-based primary
\* path is the popularity formula of the book's mean rating, its number of
\* reviews and its number of favorites.
C12_PopularityScoreOfCounts ==
    \A l \in PrimaryLists(POPULARITY_BASED) : \A k \in DOMAIN l.items :
        l.items[k].score = PopularityScore(RealRow(l.items[k].book))

\* C13, as claimed: the score of every item of the content-based primary path
\* is the content formula of the book's genre overlap with the affinity set,
\* its mean rating and its number of reviews (stated for the books that have
\* their 3 reviews).
C13_ContentScoreOfCounts ==
    \A l \in PrimaryLists(CONTENT_BASED) : \A k \in DOMAIN l.items :
        NumReviews(l.items[k].book) >= ContentMinReviews =>
            \E top \in top_genre_ids(resp[1].user_id) :
                l.items[k].score = ContentScore(RealRow(l.items[k].book), top)

\* C14, as claimed: of two returned books of equal mean rating, the one with
\* strictly more reviews and strictly more favorites comes first in the list
\* of the popularity scorer.
C14_MoreReviewedAndFavoritedFirst ==
    \A l \in PrimaryLists(POPULARITY_BASED) : \A i, j \in DOMAIN l.items :
        /\ AvgEqual(RealRow(l.items[i].book), RealRow(l.items[j].book))
        /\ NumReviews(l.items[i].book) > NumReviews(l.items[j].book)
        /\ NumFavorites(l.items[i].book) > NumFavorites(l.items[j].book)
        => i < j

\* C15, as claimed: when a primary scorer ends without error and without
\* items, what the caller gets is the list of the fallback (so the fallback
\* has no book to give either; stated for requests without rating floor or
\* genre filter).
C15_EmptyPrimaryServedByFallback ==
    \A l \in Lists :
        /\ l.path = "primary" /\ l.faults = <<>> /\ l.items = <<>>
        /\ resp[1].params.min_rating = 0 /\ resp[1].params.genres = {}
        =>
            \E f \in _get_fallback_recommendations(
                        resp[1].user_id, resp[1].params, l.recommendation_type, "none") :
                f.items = l.items

\* ------------------------------------------- claims about the feedback
\* total_feedback of the aggregate GET /stats/?recommendation_type=t reports
\* (0 when it reports none).
ReportedTotal(t) ==
    LET l == CHOOSE x \in get_recommendation_stats(t) : TRUE
    IN  IF l = <<>> THEN 0 ELSE l[1].total_feedback

FeedbackIds == {feedback[i].id : i \in DOMAIN feedback}

\* Handler h commits its INSERT in this step.
Commits(h) == calls[h].pc = "added" /\ calls'[h].pc = "committed"

\* C16: every committed submission, whether or not an identical one was
\* committed before or is in flight in another request, adds one row with an
\* id no other row has, and the total_feedback reported for its type grows by
\* exactly 1 (so by 2 over two identical submissions).
C16_NoSubmissionLostOrMerged ==
    [][\A h \in Handlers :
          Commits(h) =>
              /\ Len(feedback') = Len(feedback) + 1
              /\ feedback'[Len(feedback')].id \notin FeedbackIds
              /\ \A t \in {CONTENT_BASED, POPULARITY_BASED} :
                   ReportedTotal(t)' = ReportedTotal(t)
                       + (IF calls[h].data[1].recommendation_type = t THEN 1 ELSE 0)]_vars

\* Two requests with identical inputs, both past their commit and neither
\* answered yet: two rows with different ids, and a reported total of 2.
C16_Witness ==
    /\ calls[1].pc = "committed" /\ calls[2].pc = "committed"
    /\ calls[1].data = calls[2].data /\ calls[1].user_id = calls[2].user_id
    /\ calls[1].row[1].id # calls[2].row[1].id
    /\ Len(feedback) = 2
    /\ ReportedTotal(calls[1].data[1].recommendation_type) = 2

\* C17: a successful submission appends exactly one row, which carries the
\* user and the inputs of the call, an id and a timestamp, and is the entity
\* the call returns; no step changes or removes a row that is in the table.
C17_AppendOnly ==
    [][/\ Len(feedback') \in {Len(feedback), Len(feedback) + 1}
       /\ \A i \in DOMAIN feedback : feedback'[i] = feedback[i]
       /\ \A h \in Handlers :
            Commits(h) =>
                LET r == feedback'[Len(feedback')]
                    d == calls[h].data[1]
                IN  /\ Len(feedback') = Len(feedback) + 1
                    /\ r.user_id = calls[h].user_id
                    /\ r.book_id = d.book_id
                    /\ r.recommendation_type = d.recommendation_type
                    /\ r.is_positive = d.is_positive
                    /\ r.context_data = d.context_data
                    /\ r.id >= 1 /\ r.created_at \in Clock
                    /\ calls'[h].row = <<r>>]_vars

\* A negative submission with a context is the third row of the table, after
\* an id was spent on an insert that failed.
C17_Witness ==
    \E h \in Handlers :
        /\ calls[h].pc = "committed"
        /\ calls[h].data[1].context_data # "None"
        /\ ~calls[h].data[1].is_positive
        /\ calls[h].row[1] = feedback[Len(feedback)]
        /\ Len(feedback) = 2
        /\ calls[h].row[1].id = 3

\* The rows of the table of one type, and the positive ones among them.
RowsOf(t) == {i \in DOMAIN feedback : feedback[i].recommendation_type = t}
PositiveRowsOf(t) == {i \in RowsOf(t) : feedback[i].is_positive}

\* The aggregates of the unfiltered statistics on their way to the caller are
\* one per type that has rows, with the counts of the table.
CountsPerType ==
    LET l == stats[1].list
    IN  /\ \A t \in {CONTENT_BASED, POPULARITY_BASED} :
             Cardinality({i \in DOMAIN l : l[i].recommendation_type = t})
                 = (IF RowsOf(t) = {} THEN 0 ELSE 1)
        /\ \A i \in DOMAIN l :
             /\ l[i].total_feedback = Cardinality(RowsOf(l[i].recommendation_type))
             /\ l[i].positive_feedback = Cardinality(PositiveRowsOf(l[i].recommendation_type))
             /\ l[i].negative_feedback = l[i].total_feedback - l[i].positive_feedback

Unfiltered == IF stats = <<>> THEN FALSE ELSE stats[1].recommendation_type = "None"

\* C18, as claimed: the unfiltered statistics are one aggregate per type that
\* has rows, with the counts of the table and
\* positive_rate = positive_feedback / total_feedback.
C18_ExactPositiveRate ==
    Unfiltered =>
        /\ CountsPerType
        /\ \A i \in DOMAIN stats[1].list :
             stats[1].list[i].positive_rate * stats[1].list[i].total_feedback
                 = 1000 * stats[1].list[i].positive_feedback

\* C18, amended: the same, with positive_rate the quotient rounded to three
\* decimals (within half a thousandth of it).
C18_RoundedPositiveRate ==
    Unfiltered =>
        /\ CountsPerType
        /\ \A i \in DOMAIN stats[1].list :
             LET a == stats[1].list[i]
                 e == a.positive_rate * a.total_feedback - 1000 * a.positive_feedback
             IN  2 * e <= a.total_feedback /\ -2 * e <= a.total_feedback

\* Unfiltered statistics over three rows of one type, one of them positive:
\* the rate reads 0.333.
C18_Witness ==
    /\ Unfiltered
    /\ Len(stats[1].list) = 1
    /\ stats[1].list[1].total_feedback = 3
    /\ stats[1].list[1].positive_feedback = 1
    /\ stats[1].list[1].positive_rate = 333

\* The statistics on their way were asked for one type, of which the table
\* holds a negative feedback.
AskedWithNegative ==
    IF stats = <<>> THEN FALSE
    ELSE /\ stats[1].recommendation_type # "None"
         /\ \E i \in DOMAIN feedback :
              /\ feedback[i].recommendation_type = stats[1].recommendation_type
              /\ ~feedback[i].is_positive

OneAggregateWithNegative ==
    /\ Len(stats[1].list) = 1
    /\ stats[1].list[1].recommendation_type = stats[1].recommendation_type
    /\ stats[1].list[1].total_feedback >= 1
    /\ stats[1].list[1].negative_feedback >= 1

\* C19, as claimed: once a negative feedback of type T is in the table,
\* getStats(T) returns one aggregate, for T, with total_feedback >= 1,
\* negative_feedback >= 1 and positive_rate < 1.0.
C19_RateBelowOne ==
    AskedWithNegative =>
        OneAggregateWithNegative /\ stats[1].list[1].positive_rate < 1000

\* C19, amended: the same, with positive_rate <= 1.0, and < 1.0 when more
\* than one row in 2000 of the type is negative (the rate is rounded to three
\* decimals).
C19_RateBelowOneUnlessRounded ==
    AskedWithNegative =>
        /\ OneAggregateWithNegative
        /\ stats[1].list[1].positive_rate <= 1000
        /\ 2000 * stats[1].list[1].negative_feedback > stats[1].list[1].total_feedback
               => stats[1].list[1].positive_rate < 1000

\* After two negative feedbacks on top of the history the rate of the type
\* reads 0.999, while the table also holds a row of the other type.
C19_Witness ==
    /\ AskedWithNegative
    /\ stats[1].list[1].negative_feedback = 2
    /\ stats[1].list[1].total_feedback = HistoryRows + 2
    /\ stats[1].list[1].positive_rate = 999
    /\ \E i \in DOMAIN feedback :
         feedback[i].recommendation_type # stats[1].recommendation_type

\* C20: every key is a digest of 32 characters; two calls with identical
\* user id, strategy tag, limit, exclusion flag, minimum rating and genre
\* filter return the same key, and two calls whose inputs differ in exactly
\* one of these fields return different keys.
C20_KeyPerInput ==
    \A i, j \in DOMAIN cache_keys :
        /\ Len(cache_keys[i].key) = 32
        /\ \A c \in DOMAIN cache_keys[i].key :
              \E d \in DOMAIN HexDigits : cache_keys[i].key[c] = HexDigits[d]
        /\ Differing(cache_keys[i].in, cache_keys[j].in) = {}
              => cache_keys[i].key = cache_keys[j].key
        /\ Cardinality(Differing(cache_keys[i].in, cache_keys[j].in)) = 1
              => cache_keys[i].key # cache_keys[j].key

\* C20: two keys have been derived for inputs that differ in the genre filter
\* only, one without a filter and one with the filter [1, 2].
C20_Witness ==
    /\ Len(cache_keys) = 2
    /\ Differing(cache_keys[1].in, cache_keys[2].in) = {"genres"}
    /\ cache_keys[1].in.params.genres = <<>>
    /\ cache_keys[2].in.params.genres = <<<<1, 2>>>>
    /\ cache_keys[1].key # cache_keys[2].key

\* The responses an endpoint may give to a request now, when no fault strikes.
Served(endpoint, user_id, params) ==
    IF endpoint = "content-based"
    THEN {Response(endpoint, user_id, params, <<List(CONTENT_BASED, o)>>, o.kind = "raise") :
            o \in get_content_based_recommendations(user_id, params, "none", "none")}
    ELSE IF endpoint = "popularity-based"
    THEN {Response(endpoint, user_id, params, <<List(POPULARITY_BASED, o)>>, o.kind = "raise") :
            o \in get_popularity_based_recommendations(user_id, params, "none", "none")}
    ELSE {Response(endpoint, user_id, params,
                   <<List(CONTENT_BASED, c), List(POPULARITY_BASED, p)>>,
                   c.kind = "raise" \/ p.kind = "raise") :
            c \in get_content_based_recommendations(user_id, params, "none", "none"),
            p \in get_popularity_based_recommendations(user_id, params, "none", "none")}

\* The books and scores of the lists of a response.
ItemsOf(r) == [i \in DOMAIN r.lists |-> r.lists[i].items]

\* A step of an engine operation other than the feedback recorder: a
\* recommendation response, statistics, a cache key or an invalidation.
EngineStep ==
    \/ resp' # resp /\ resp' # <<>>
    \/ stats' # stats /\ stats' # <<>>
    \/ cache_keys' # cache_keys
    \/ invalidated' # invalidated /\ invalidated' # <<>>

\* C21, as claimed: no engine operation other than the feedback recorder
\* changes the reviews, the favorites or the feedback rows (books and genres
\* are fixed); the invalidation always answers 200, and the recommendations
\* computed after it, on unchanged data, are the ones computed before it.
C21_FrameAndInvalidation ==
    [][/\ EngineStep => UNCHANGED <<favorites, reviews, feedback, id_seq>>
       /\ invalidated' # invalidated /\ invalidated' # <<>> =>
            /\ invalidated'[1].status = 200
            /\ IF resp = <<>> THEN TRUE
               ELSE \A r \in Served(resp[1].endpoint, resp[1].user_id, resp[1].params)' :
                       ItemsOf(r) = ItemsOf(resp[1])]_vars

\* The candidate query counted the reviews and the favorites of the row's
\* book once.
CountedOnce(row) ==
    /\ row.review_count = NumReviews(row.book)
    /\ row.favorite_count \in {0, NumFavorites(row.book)}

LeftOut(l, row) == \A k \in DOMAIN l.items : l.items[k].book # row.book

\* C22, as claimed: in both primary scorers no candidate that passes the
\* filters of the strategy and is left out of the result has a strictly
\* higher score than a returned item (stated for the candidates whose reviews
\* and favorites the query counted once).
C22_LimitAfterRanking ==
    /\ \A l \in PrimaryLists(POPULARITY_BASED) :
         \A row \in PopularityCandidates(user_books(resp[1].user_id, resp[1].params),
                                         resp[1].params) :
            CountedOnce(row) /\ LeftOut(l, row) /\ RealCounts(l) =>
                \A k \in DOMAIN l.items : PopularityScore(row) <= l.items[k].score
    /\ \A l \in PrimaryLists(CONTENT_BASED) :
         \E top \in top_genre_ids(resp[1].user_id) :
            \A row \in ContentCandidates(top, user_books(resp[1].user_id, resp[1].params),
                                         resp[1].params) :
               CountedOnce(row) /\ LeftOut(l, row) /\ RealCounts(l) =>
                   \A k \in DOMAIN l.items : ContentScore(row, top) <= l.items[k].score

\* The lists the fallback made.
FallbackLists == {l \in Lists : l.path # "primary"}

\* The books the fallback may return for the request of the response: those
\* with a review that the user, when the flag is set, has not favorited or
\* reviewed.
Eligible ==
    {b \in Books : /\ NumReviews(b) >= 1
                   /\ resp[1].params.exclude_user_books => b \notin Interacted}

\* Book a comes strictly before book b by mean rating, then review count.
RankedBefore(a, b) ==
    \/ RatingSum(a) * NumReviews(b) > RatingSum(b) * NumReviews(a)
    \/ /\ RatingSum(a) * NumReviews(b) = RatingSum(b) * NumReviews(a)
       /\ NumReviews(a) > NumReviews(b)

\* C23: a list of the fallback holds only eligible books with a review, each
\* once and with score mean_rating / 5 rounded to three decimals, in
\* descending order of mean rating and then of review count, as many as the
\* limit allows, and no eligible book left out ranks before a returned one.
C23_FallbackTopOfRatingOrder ==
    \A l \in FallbackLists :
        /\ Len(l.items) = Min(resp[1].params.limit, Cardinality(Eligible))
        /\ \A k \in DOMAIN l.items :
              /\ l.items[k].book \in Eligible
              /\ l.items[k].score
                    = RoundHalfEven(2 * RatingSum(l.items[k].book),
                                    NumReviews(l.items[k].book))
              /\ \A b \in Eligible :
                    (\A j \in DOMAIN l.items : l.items[j].book # b)
                        => ~RankedBefore(b, l.items[k].book)
        /\ \A i, j \in DOMAIN l.items :
              i < j => /\ l.items[i].book # l.items[j].book
                       /\ ~RankedBefore(l.items[j].book, l.items[i].book)

\* A fallback list cut at limit 1: of two books with reviews, equal in mean
\* rating, the one with fewer reviews was left out.
C23_Witness ==
    /\ resp # <<>>
    /\ resp[1].params.limit = 1
    /\ \E l \in FallbackLists :
         /\ Len(l.items) = 1
         /\ \E b \in Eligible :
              /\ RankedBefore(l.items[1].book, b)
              /\ RatingSum(b) * NumReviews(l.items[1].book)
                    = RatingSum(l.items[1].book) * NumReviews(b)

\* The favorited books of a user that carry genre g.
FavoritedWith(user_id, g) ==
    {b \in Books : <<user_id, b>> \in favorites /\ g \in BookGenres(b)}

\* An affinity set as claimed: at most 5 genres, each on a favorited book of
\* the user, none less frequent among the favorited books than a genre that
\* was left out.
AffinityAsClaimed(user_id, top) ==
    /\ Cardinality(top) <= 5
    /\ \A g \in top : FavoritedWith(user_id, g) # {}
    /\ \A g \in top, h \in Genres \ top :
          Cardinality(FavoritedWith(user_id, h)) <= Cardinality(FavoritedWith(user_id, g))

\* C24: every affinity set the content-based scorer may compute for a user is
\* as claimed, and every list of its primary path was made from one of them:
\* each row is a book with a genre of the set, counted over its genres in the
\* set.
C24_AffinityTopFive ==
    /\ \A u \in Users : \A top \in top_genre_ids(u) : AffinityAsClaimed(u, top)
    /\ \A l \in PrimaryLists(CONTENT_BASED) :
          \E top \in top_genre_ids(resp[1].user_id) :
              /\ AffinityAsClaimed(resp[1].user_id, top)
              /\ top # {}
              /\ \A i \in DOMAIN l.books :
                    /\ BookGenres(l.books[i].book) \cap top # {}
                    /\ l.books[i].review_count
                          = Cardinality(BookGenres(l.books[i].book) \cap top)
                              * NumReviews(l.books[i].book)

\* The user has favorited both books: genre 1 is on two favorited books and
\* five more genres on one, so the cut at 5 kept genre 1 and left one of the
\* others out; the primary path returned a list.
C24_Witness ==
    /\ resp # <<>>
    /\ resp[1].endpoint = "content-based"
    /\ Cardinality(FavoritedWith(resp[1].user_id, 1)) = 2
    /\ Cardinality({g \in Genres : FavoritedWith(resp[1].user_id, g) # {}}) > 5
    /\ \E l \in PrimaryLists(CONTENT_BASED) : Len(l.items) = 2

\* C25, as claimed: every book returned for a popularity-based request with
\* a non-empty genre allow-list has a genre of the list and at least one
\* review.
C25_GenreFilterAndReviewFloor ==
    \A l \in Lists : \A k \in DOMAIN l.items :
        /\ resp[1].endpoint = "popularity-based"
        /\ resp[1].params.genres # {}
        => /\ BookGenres(l.items[k].book) \cap resp[1].params.genres # {}
           /\ NumReviews(l.items[k].book) >= 1

\* The positions of the queries of list l that failed.
FailedQueries(l) ==
    {i \in DOMAIN l.queries : \E k \in DOMAIN l.faults : l.faults[k] = l.queries[i]}

\* The primary strategy ran at most once and the fallback at most once, a
\* primary fault led to one fallback call, a fallback fault to the empty
\* list, and the request ended with a response of status 200.
OneAttemptEach(l) ==
    /\ \A i, j \in DOMAIN l.queries : l.queries[i] = l.queries[j] => i = j
    /\ l.fallbacks <= 1
    /\ (\E k \in DOMAIN l.faults : l.faults[k] \in PrimaryFaults) => l.fallbacks = 1
    /\ (\E k \in DOMAIN l.faults : l.faults[k] \in FallbackFaults) => l.items = <<>>
    /\ resp[1].status = 200

\* C26, as claimed: within one request the primary strategy is attempted at
\* most once and the fallback at most once, a primary fault leads to exactly
\* one fallback attempt, a fallback fault to the empty result, every request
\* ends with a response, and no statement that failed is issued again.
C26_NoRetryOfFailedQuery ==
    \A l \in Lists :
        /\ OneAttemptEach(l)
        /\ \A i \in FailedQueries(l) : \A j \in DOMAIN l.queries :
              j > i => Statement(l.queries[j]) # Statement(l.queries[i])

\* C27, as claimed: recording feedback, by any user and of either sign,
\* leaves the recommendations as they were: on unchanged reviews and
\* favorites, every response the request may get after the feedback row is
\* written has the books and scores of the response it got before.
C27_FeedbackNeverInfluences ==
    [][feedback' # feedback /\ resp # <<>> =>
         /\ UNCHANGED <<favorites, reviews>>
         /\ \A r \in Served(resp[1].endpoint, resp[1].user_id, resp[1].params)' :
               ItemsOf(r) = ItemsOf(resp[1])]_vars

\* C30, as claimed: with exclude_user_books disabled the exclusion set is
\* empty and the popularity-based result does not depend on the user: every
\* other user gets, for the same parameters and tables, the same books with
\* the same scores.
C30_PopularitySameForAllUsers ==
    IF resp = <<>> THEN TRUE
    ELSE resp[1].endpoint = "popularity-based" /\ ~resp[1].params.exclude_user_books =>
            /\ user_books(resp[1].user_id, resp[1].params) = {}
            /\ \A u \in Users \ {resp[1].user_id} :
                 \A r \in Served("popularity-based", u, resp[1].params) :
                     ItemsOf(r) = ItemsOf(resp[1])

\* The user of the response has, now, a favorited book that carries a genre.
HasAffinity ==
    \E b \in Books : <<resp[1].user_id, b>> \in favorites /\ BookGenres(b) # {}

\* C28: a response is computed from the favorites and reviews committed when
\* the request started, whatever was served before: with exclusion enabled
\* it holds no book the user has favorited or reviewed by then, and a
\* content-based list is made by the primary scorer exactly when the user has
\* a favorited book with a genre by then, from genres of the affinity set of
\* those favorites. No invalidation step is needed (Next has none).
C28_FreshPerRequest ==
    \A l \in Lists :
        /\ resp[1].params.exclude_user_books =>
              \A k \in DOMAIN l.items :
                  /\ <<resp[1].user_id, l.items[k].book>> \notin favorites
                  /\ reviews[resp[1].user_id][l.items[k].book] = 0
        /\ l.recommendation_type = CONTENT_BASED /\ l.faults = <<>> =>
              /\ l.path = "primary" <=> HasAffinity
              /\ l.path = "primary" =>
                    \E top \in top_genre_ids(resp[1].user_id) :
                        \A k \in DOMAIN l.items :
                            BookGenres(l.items[k].book) \cap top # {}

\* The user favorited a book that has reviews, and a later request for both
\* lists with exclusion enabled got a content-based list made by the primary
\* scorer from that favorite and a popularity-based list that holds another
\* book and not that one.
C28_Witness ==
    /\ resp # <<>>
    /\ resp[1].params.exclude_user_books
    /\ \E l \in Lists : l.recommendation_type = CONTENT_BASED /\ l.path = "primary"
    /\ \E l \in Lists :
         /\ l.recommendation_type = POPULARITY_BASED
         /\ l.items # <<>>
         /\ \E b \in Books :
              /\ <<resp[1].user_id, b>> \in favorites
              /\ NumReviews(b) >= 1
              /\ \A k \in DOMAIN l.items : l.items[k].book # b

\* The books the user of the open request has favorited or reviewed, as the
\* view of the request holds them.
InteractedInView ==
    {b \in Books : \/ <<txn[1].user_id, b>> \in txn[1].view.favorites
                   \/ txn[1].view.reviews[txn[1].user_id][b] # 0}

====
